---- MODULE Spec2Model ----
(***************************************************************************)
(* ValuePredictReport (src/ValuePredict/vp_report.py): the report pipeline *)
(* of a tabular regression task.  The constructor loads a table and splits *)
(* off the identifier column; generate_report trains a predictor, reads    *)
(* its leaderboard, importance table and used features, selects the first  *)
(* LightGBM sub-model, renders two SHAP images, assembles the document in  *)
(* memory, appends it to the instance buffer and writes the buffer to the  *)
(* report path.  The AutoML engine, the SHAP explainer and the file system *)
(* are external: each of their calls either returns or raises.             *)
(***************************************************************************)
EXTENDS Integers, Sequences, FiniteSets, TLC

(***************************************************************************)
(* Bounds of the model.                                                    *)
(***************************************************************************)
MaxTable == 3
MaxModels == 2
MaxRuns == 2
MaxK == 3

(***************************************************************************)
(* Input domains.                                                          *)
(***************************************************************************)
ColNames == {"id", "y", "a", "d"}
DateCols == {"d"}
RowCounts == {2}
IdCols == {"id"}
Labels == {"y"}
ModelPool == {"LightGBMXT", "LightGBM", "CatBoost"}
Folders == {"out"}

Range(s) == {s[i] : i \in DOMAIN s}
Min(a, b) == IF a <= b THEN a ELSE b
Max(a, b) == IF a >= b THEN a ELSE b

\* Sequences without repetition over S, of length at most n.
InjSeqs(S, n) ==
  UNION {{s \in [1..k -> S] : \A i, j \in 1..k : s[i] = s[j] => i = j} : k \in 0..Min(n, Cardinality(S))}

\* The tables pd.read_csv (line 10) can return: distinct column names, file order.
Tables == [columns : InjSeqs(ColNames, Cardinality(ColNames)) \ {<<>>}, nrows : RowCounts]

(***************************************************************************)
(* Python and pandas helpers, as the code uses them.                       *)
(***************************************************************************)
\* os.path.join(folder, name)
path_join(folder, name) == folder \o "/" \o name

\* Python's `sub in s` on strings.
str_contains(s, sub) ==
  \E i \in 1..(Len(s) + 1 - Len(sub)) : SubSeq(s, i, i + Len(sub) - 1) = sub

\* DataFrame.head(n): df[:n], Python slice semantics.
head(df, n) ==
  IF n >= 0 THEN SubSeq(df, 1, Min(n, Len(df)))
            ELSE SubSeq(df, 1, Max(Len(df) + n, 0))

\* [x for x in s if x != drop]
without(s, drop) == SelectSeq(s, LAMBDA x : x # drop)

(***************************************************************************)
(* State.                                                                  *)
(***************************************************************************)
VARIABLES
  pc,                     \* position of the program: "new", "dead", "idle" or the stage about to run
  id_col, label, report_folder, model_path, vp_report_path, eval_metric,
  train_data,             \* self.train_data: [columns, nrows]; line 20 drops a column in place
  train_id,               \* self.train_id: the identifier column, [name, nrows]
  original_features,      \* self.original_features
  vp_report_lines,        \* self.vp_report_lines, the instance's report buffer
  predictor,              \* locals of generate_basic_part ...
  leaderboard_df, feature_importance_df, used_features, unused_features,
  X, lightgbm_model_name, shap_values, report_lines, recommended_features,
  report_file,            \* the file at vp_report_path: [exists, content]
  summary_png, bar_png,   \* the files at the two PNG paths: [exists, kind, shap, X]
  models_dir,             \* what the Training Invoker last trained under model_path
  outcome,                \* "none", "running", "ok" or "error": the last generate_report call
  error,                  \* the exception that ended the last call: [kind, stage]
  run,                    \* number of generate_report calls started
  trace,                  \* history: the stages the current (or last) call completed
  report_at_start,        \* history: report_file when the current (or last) call started
  written,                \* history: the content each successful call left in report_file
  call                    \* the last direct call of recommend_features: [made, df, top_k, result]

fields == <<id_col, label, report_folder, model_path, vp_report_path, eval_metric,
            train_data, train_id, original_features>>
locals == <<predictor, leaderboard_df, feature_importance_df, used_features, unused_features,
            X, lightgbm_model_name, shap_values, report_lines, recommended_features>>
images == <<summary_png, bar_png>>
history == <<trace, report_at_start, written>>
vars == <<pc, fields, vp_report_lines, locals, report_file, images, models_dir,
          outcome, error, run, history, call>>

NoColumn == [name |-> "", nrows |-> 0]
NoPredictor == [fitted |-> FALSE, fit |-> 0, model_names |-> <<>>, importance |-> <<>>,
                used |-> <<>>, leaderboard |-> <<>>]
NoShap == [model |-> "", X |-> 0]
NoFile == [exists |-> FALSE, content |-> <<>>]
NoImage == [exists |-> FALSE, kind |-> "", shap |-> NoShap, X |-> 0]
NoError == [kind |-> "", stage |-> ""]
NoCall == [made |-> FALSE, df |-> <<>>, top_k |-> 0, result |-> <<>>]

LocalsCleared ==
  /\ predictor' = NoPredictor
  /\ leaderboard_df' = <<>>
  /\ feature_importance_df' = <<>>
  /\ used_features' = <<>>
  /\ unused_features' = <<>>
  /\ X' = 0
  /\ lightgbm_model_name' = ""
  /\ shap_values' = NoShap
  /\ report_lines' = <<>>
  /\ recommended_features' = <<>>

Init ==
  /\ id_col \in IdCols
  /\ label \in Labels
  /\ report_folder \in Folders
  /\ pc = "new"
  /\ model_path = ""
  /\ vp_report_path = ""
  /\ eval_metric = ""
  /\ train_data \in Tables
  /\ train_id = NoColumn
  /\ original_features = <<>>
  /\ vp_report_lines = <<>>
  /\ predictor = NoPredictor
  /\ leaderboard_df = <<>>
  /\ feature_importance_df = <<>>
  /\ used_features = <<>>
  /\ unused_features = <<>>
  /\ X = 0
  /\ lightgbm_model_name = ""
  /\ shap_values = NoShap
  /\ report_lines = <<>>
  /\ recommended_features = <<>>
  /\ report_file = NoFile
  /\ summary_png = NoImage
  /\ bar_png = NoImage
  /\ models_dir = NoPredictor
  /\ outcome = "none"
  /\ error = NoError
  /\ run = 0
  /\ trace = <<>>
  /\ report_at_start = NoFile
  /\ written = <<>>
  /\ call = NoCall

(***************************************************************************)
(* __init__ (lines 9-22).                                                  *)
(***************************************************************************)
\* line 20: train_data.drop(columns=[id_col])
drop_column(data, col) == [data EXCEPT !.columns = without(data.columns, col)]

\* Variant of line 21 without its `if col != self.label` filter.
features_keep_label(data, lbl) == data.columns

\* line 21: [col for col in self.train_data.columns if col != self.label]
features_of(data, lbl) == without(data.columns, lbl)

\* line 19 raises KeyError when the table has no identifier column.
InitKeyError ==
  /\ pc = "new"
  /\ id_col \notin Range(train_data.columns)
  /\ pc' = "dead"
  /\ error' = [kind |-> "KeyError", stage |-> "init"]
  /\ UNCHANGED <<fields, vp_report_lines, locals, report_file, images, models_dir,
                 outcome, run, history, call>>

InitOk ==
  /\ pc = "new"
  /\ id_col \in Range(train_data.columns)
  /\ model_path' = path_join(report_folder, "models")
  /\ vp_report_path' = path_join(report_folder, "vp_report.md")
  /\ eval_metric' = "mean_squared_error"
  /\ train_id' = [name |-> id_col, nrows |-> train_data.nrows]
  /\ train_data' = drop_column(train_data, id_col)
  /\ original_features' = features_of(drop_column(train_data, id_col), label)
  /\ vp_report_lines' = <<>>
  /\ pc' = "idle"
  /\ UNCHANGED <<id_col, label, report_folder, locals, report_file, images, models_dir,
                 outcome, error, run, history, call>>

(***************************************************************************)
(* The external collaborators, as generate_basic_part uses them.           *)
(***************************************************************************)
\* A set of names as a list, in the order of `order`.
listed(U, order) == SelectSeq(order, LAMBDA f : f \in U)

Reverse(s) == [i \in 1..Len(s) |-> s[Len(s) + 1 - i]]

\* The name under which the trained models consume a kept column.
internal(f) == IF f \in DateCols THEN f \o ".year" ELSE f

\* What TabularPredictor(...).fit(train_data) may return in call r: the
\* sub-models in training order, the importance table (one row per column
\* the engine kept, in the engine's order), the features the trained models
\* consume (the kept columns under their internal names), and the
\* leaderboard (one row per sub-model).
Trained(data, lbl, r) ==
  LET fs == features_of(data, lbl)
  IN  {[fitted |-> TRUE, fit |-> r, model_names |-> m, importance |-> imp,
        used |-> [i \in 1..Len(listed(Range(imp), fs)) |-> internal(listed(Range(imp), fs)[i])],
        leaderboard |-> Reverse(m)] :
          m \in InjSeqs(ModelPool, MaxModels),
          imp \in InjSeqs(Range(fs), Len(fs))}

\* line 42: [f for f in self.original_features if f not in used_features]
unused_of(features, used) == SelectSeq(features, LAMBDA f : f \notin Range(used))

\* Variant of line 46 that keeps the last matching name instead of the first.
last_match(names, token) ==
  LET hits == {i \in DOMAIN names : str_contains(names[i], token)}
  IN  names[CHOOSE i \in hits : \A j \in hits : i >= j]

\* line 46: next(m for m in names if token in m), when some name matches.
next_match(names, token) ==
  LET hits == {i \in DOMAIN names : str_contains(names[i], token)}
  IN  names[CHOOSE i \in hits : \A j \in hits : i <= j]

has_match(names, token) == \E i \in DOMAIN names : str_contains(names[i], token)

\* lines 49-51: shap.TreeExplainer(model).shap_values(X)
explain(model, x) == [model |-> model, X |-> x]

\* lines 55-58 and 62-65: shap.summary_plot(...) then plt.savefig(path)
summary_plot(sv, x, plot_type) == [exists |-> TRUE, kind |-> plot_type, shap |-> sv, X |-> x]

(***************************************************************************)
(* The document (lines 68-130): one block per group of report lines.       *)
(***************************************************************************)
TopRows == 30
TopK == 30

Blk(sec, kind, names, num) == [sec |-> sec, kind |-> kind, names |-> names, num |-> num]

\* lines 68-120
basic_lines(lbl, data, features, importance, summary_path, bar_path, used, unused, leaderboard) ==
  << Blk(1, "title", <<>>, 0),
     Blk(1, "target", <<lbl>>, 0),
     Blk(2, "rows", <<>>, data.nrows),
     Blk(2, "features", <<>>, Len(features)),
     Blk(3, "importance_table", head(importance, TopRows), 0),
     Blk(3, "importance_glossary", <<>>, 0),
     Blk(4, "shap_heading", <<>>, 0),
     Blk(4, "summary_image", <<summary_path>>, 0),
     Blk(4, "bar_image", <<bar_path>>, 0),
     Blk(4, "shap_note", <<>>, 0),
     Blk(5, "used_features", used, 0),
     Blk(5, "unused_features", unused, 0),
     Blk(6, "leaderboard_table", leaderboard, 0),
     Blk(6, "leaderboard_glossary", <<>>, 0) >>

\* Variant of lines 134-137 that forgets head(top_k) and returns the whole index.
recommend_features_whole_index(feature_importance, top_k) == feature_importance

\* lines 134-137
recommend_features(feature_importance, top_k) == head(feature_importance, top_k)

\* lines 125-130
recommend_lines(recommended) ==
  << Blk(7, "recommend_heading", <<>>, 0),
     Blk(7, "recommend_count", <<>>, Len(recommended)),
     Blk(7, "recommend_list", recommended, 0) >>

(***************************************************************************)
(* generate_report (lines 24-29), save_report (31-33) and                  *)
(* generate_basic_part (35-132), one action per stage.                     *)
(***************************************************************************)
\* A stage completes and control moves on.
Step(from, to) ==
  /\ pc = from
  /\ pc' = to
  /\ trace' = Append(trace, from)
  /\ UNCHANGED <<fields, outcome, error, run, report_at_start, written, call>>

\* An exception leaves generate_report: the frame's locals are gone.
Raise(kind) ==
  /\ pc' = "idle"
  /\ outcome' = "error"
  /\ error' = [kind |-> kind, stage |-> pc]
  /\ LocalsCleared
  /\ UNCHANGED <<fields, vp_report_lines, images, models_dir, run, history, call>>

\* line 24: a caller invokes generate_report on the constructed object.
GenerateReport ==
  /\ pc = "idle"
  /\ run < MaxRuns
  /\ pc' = "fit"
  /\ run' = run + 1
  /\ outcome' = "running"
  /\ error' = NoError
  /\ trace' = <<>>
  /\ report_at_start' = report_file
  /\ UNCHANGED <<fields, vp_report_lines, locals, report_file, images, models_dir,
                 written, call>>

\* lines 36-37.  The engine cannot train without the label column; on the
\* same table it trains the same models again.
Fit ==
  /\ Step("fit", "leaderboard")
  /\ label \in Range(train_data.columns)
  /\ \E p \in Trained(train_data, label, run) :
       /\ models_dir.fitted => p = [models_dir EXCEPT !.fit = run]
       /\ predictor' = p
       /\ models_dir' = p
  /\ UNCHANGED <<vp_report_lines, leaderboard_df, feature_importance_df, used_features,
                 unused_features, X, lightgbm_model_name, shap_values, report_lines,
                 recommended_features, report_file, images>>

\* line 39
Leaderboard ==
  /\ Step("leaderboard", "importance")
  /\ leaderboard_df' = predictor.leaderboard
  /\ UNCHANGED <<vp_report_lines, predictor, feature_importance_df, used_features,
                 unused_features, X, lightgbm_model_name, shap_values, report_lines,
                 recommended_features, report_file, images, models_dir>>

\* line 40
Importance ==
  /\ Step("importance", "features")
  /\ feature_importance_df' = predictor.importance
  /\ UNCHANGED <<vp_report_lines, predictor, leaderboard_df, used_features,
                 unused_features, X, lightgbm_model_name, shap_values, report_lines,
                 recommended_features, report_file, images, models_dir>>

\* Variant of lines 41-42 that narrows self.original_features to the names
\* the trained models consume.
FeaturesPruneOriginal ==
  /\ pc = "features"
  /\ pc' = "internal"
  /\ trace' = Append(trace, "features")
  /\ used_features' = predictor.used
  /\ unused_features' = unused_of(original_features, predictor.used)
  /\ original_features' = SelectSeq(original_features, LAMBDA f : f \in Range(predictor.used))
  /\ UNCHANGED <<id_col, label, report_folder, model_path, vp_report_path, eval_metric,
                 train_data, train_id, outcome, error, run, report_at_start, written, call,
                 vp_report_lines, predictor, leaderboard_df, feature_importance_df,
                 X, lightgbm_model_name, shap_values, report_lines,
                 recommended_features, report_file, images, models_dir>>

\* lines 41-42
Features ==
  /\ Step("features", "internal")
  /\ used_features' = predictor.used
  /\ unused_features' = unused_of(original_features, predictor.used)
  /\ UNCHANGED <<vp_report_lines, predictor, leaderboard_df, feature_importance_df,
                 X, lightgbm_model_name, shap_values, report_lines,
                 recommended_features, report_file, images, models_dir>>

\* line 45: the input matrix of the predictor fitted in this call.
Internal ==
  /\ Step("internal", "select")
  /\ X' = predictor.fit
  /\ UNCHANGED <<vp_report_lines, predictor, leaderboard_df, feature_importance_df,
                 used_features, unused_features, lightgbm_model_name, shap_values,
                 report_lines, recommended_features, report_file, images, models_dir>>

\* line 46, some name matches.
Select ==
  /\ Step("select", "explain")
  /\ has_match(predictor.model_names, "LightGBM")
  /\ lightgbm_model_name' = next_match(predictor.model_names, "LightGBM")
  /\ UNCHANGED <<vp_report_lines, predictor, leaderboard_df, feature_importance_df,
                 used_features, unused_features, X, shap_values,
                 report_lines, recommended_features, report_file, images, models_dir>>

\* line 46, no name matches: next() on the exhausted generator raises.
SelectStopIteration ==
  /\ pc = "select"
  /\ ~has_match(predictor.model_names, "LightGBM")
  /\ Raise("StopIteration")
  /\ UNCHANGED report_file

\* lines 49-51
Explain ==
  /\ Step("explain", "summary")
  /\ shap_values' = explain(lightgbm_model_name, X)
  /\ UNCHANGED <<vp_report_lines, predictor, leaderboard_df, feature_importance_df,
                 used_features, unused_features, X, lightgbm_model_name,
                 report_lines, recommended_features, report_file, images, models_dir>>

\* lines 54-58
SummaryPlot ==
  /\ Step("summary", "bar")
  /\ summary_png' = summary_plot(shap_values, X, "dot")
  /\ UNCHANGED <<vp_report_lines, locals, report_file, bar_png, models_dir>>

\* Variant of lines 61-65 that saves the bar chart to the summary plot's path.
BarPlotToSummaryPath ==
  /\ Step("bar", "assemble")
  /\ summary_png' = summary_plot(shap_values, X, "bar")
  /\ UNCHANGED <<vp_report_lines, locals, report_file, bar_png, models_dir>>

\* lines 61-65
BarPlot ==
  /\ Step("bar", "assemble")
  /\ bar_png' = summary_plot(shap_values, X, "bar")
  /\ UNCHANGED <<vp_report_lines, locals, report_file, summary_png, models_dir>>

\* Variant of lines 68-120 that flushes the basic part to the report path
\* as soon as it is assembled.
AssembleAndFlush ==
  /\ Step("assemble", "recommend")
  /\ report_lines' = basic_lines(label, train_data, original_features, feature_importance_df,
                                 path_join(report_folder, "shap_summary_plot.png"),
                                 path_join(report_folder, "shap_bar_plot.png"),
                                 used_features, unused_features, leaderboard_df)
  /\ report_file' = [exists |-> TRUE, content |-> report_lines']
  /\ UNCHANGED <<vp_report_lines, predictor, leaderboard_df, feature_importance_df,
                 used_features, unused_features, X, lightgbm_model_name, shap_values,
                 recommended_features, images, models_dir>>

\* lines 68-120
Assemble ==
  /\ Step("assemble", "recommend")
  /\ report_lines' = basic_lines(label, train_data, original_features, feature_importance_df,
                                 path_join(report_folder, "shap_summary_plot.png"),
                                 path_join(report_folder, "shap_bar_plot.png"),
                                 used_features, unused_features, leaderboard_df)
  /\ UNCHANGED <<vp_report_lines, predictor, leaderboard_df, feature_importance_df,
                 used_features, unused_features, X, lightgbm_model_name, shap_values,
                 recommended_features, report_file, images, models_dir>>

\* lines 123-132
Recommend ==
  /\ Step("recommend", "extend")
  /\ recommended_features' = recommend_features(feature_importance_df, TopK)
  /\ report_lines' = report_lines \o recommend_lines(recommend_features(feature_importance_df, TopK))
  /\ UNCHANGED <<vp_report_lines, predictor, leaderboard_df, feature_importance_df,
                 used_features, unused_features, X, lightgbm_model_name, shap_values,
                 report_file, images, models_dir>>

\* lines 26-27: self.vp_report_lines.extend(report_lines)
extend(buffer, lines) == buffer \o lines

Extend ==
  /\ Step("extend", "open")
  /\ vp_report_lines' = extend(vp_report_lines, report_lines)
  /\ UNCHANGED <<locals, report_file, images, models_dir>>

\* line 32: open(path, "w") creates or truncates the file.
SaveOpen ==
  /\ Step("open", "write")
  /\ report_file' = [exists |-> TRUE, content |-> <<>>]
  /\ UNCHANGED <<vp_report_lines, locals, images, models_dir>>

\* lines 33 and 29: the joined buffer is written and the call returns.
SaveWrite ==
  /\ pc = "write"
  /\ pc' = "idle"
  /\ trace' = Append(trace, "write")
  /\ report_file' = [exists |-> TRUE, content |-> vp_report_lines]
  /\ written' = Append(written, vp_report_lines)
  /\ outcome' = "ok"
  /\ LocalsCleared
  /\ UNCHANGED <<fields, vp_report_lines, images, models_dir, error, run,
                 report_at_start, call>>

\* The exception a failing external call raises at each stage.
FailKind ==
  [fit |-> "TrainingError", leaderboard |-> "PredictorError", importance |-> "PredictorError",
   features |-> "PredictorError", internal |-> "PredictorError", explain |-> "ExplainerError",
   summary |-> "RenderError", bar |-> "RenderError", assemble |-> "RenderError",
   open |-> "OSError"]

\* An external call (engine, explainer, plotting, to_markdown, open) raises.
StageFails ==
  /\ pc \in DOMAIN FailKind
  /\ Raise(FailKind[pc])
  /\ UNCHANGED report_file

\* line 33 raises after line 32 truncated the file: part of the text, or
\* none of it, has reached the file.
SaveWriteFails ==
  /\ pc = "write"
  /\ Raise("OSError")
  /\ \E n \in {0, Len(vp_report_lines) - 1} :
       report_file' = [exists |-> TRUE, content |-> SubSeq(vp_report_lines, 1, n)]

\* A caller invokes recommend_features directly (lines 134-137).
CallRecommend ==
  /\ pc = "idle"
  /\ \E df \in InjSeqs(ColNames, MaxTable), k \in 0..MaxK :
       call' = [made |-> TRUE, df |-> df, top_k |-> k, result |-> recommend_features(df, k)]
  /\ UNCHANGED <<pc, fields, vp_report_lines, locals, report_file, images, models_dir,
                 outcome, error, run, history>>

Next ==
  \/ InitOk \/ InitKeyError
  \/ GenerateReport
  \/ Fit \/ Leaderboard \/ Importance \/ Features \/ Internal
  \/ Select \/ SelectStopIteration
  \/ Explain \/ SummaryPlot \/ BarPlot
  \/ Assemble \/ Recommend \/ Extend
  \/ SaveOpen \/ SaveWrite
  \/ StageFails \/ SaveWriteFails

Spec == Init /\ [][Next]_vars

\* The object is constructed and recommend_features is called on its own.
NextRecommend == InitOk \/ InitKeyError \/ CallRecommend

SpecRecommend == Init /\ [][NextRecommend]_vars

(***************************************************************************)
(* Properties.                                                             *)
(***************************************************************************)
Constructed == pc \notin {"new", "dead"}

IsPrefix(s, t) == Len(s) <= Len(t) /\ \A i \in 1..Len(s) : s[i] = t[i]

\* The stages of one generate_report call, in the order of the source text.
StageOrder ==
  << "fit", "leaderboard", "importance", "features", "internal", "select", "explain",
     "summary", "bar", "assemble", "recommend", "extend", "open", "write" >>

\* The kinds of the blocks of one document, sections (1) to (7).
DocKinds ==
  << "title", "target", "rows", "features", "importance_table", "importance_glossary",
     "shap_heading", "summary_image", "bar_image", "shap_note", "used_features",
     "unused_features", "leaderboard_table", "leaderboard_glossary",
     "recommend_heading", "recommend_count", "recommend_list" >>

DocSections == << 1, 1, 2, 2, 3, 3, 4, 4, 4, 4, 5, 5, 6, 6, 7, 7, 7 >>

\* doc is one complete document: every block of every section, once, in order.
CompleteDocument(doc) ==
  /\ Len(doc) = Len(DocKinds)
  /\ \A i \in 1..Len(doc) : doc[i].kind = DocKinds[i] /\ doc[i].sec = DocSections[i]

\* text is a concatenation of complete documents.
WholeDocuments(text) ==
  /\ Len(text) % Len(DocKinds) = 0
  /\ \A k \in 0..((Len(text) \div Len(DocKinds)) - 1) :
       CompleteDocument(SubSeq(text, k * Len(DocKinds) + 1, (k + 1) * Len(DocKinds)))

\* C1 (as stated): a direct call recommend_features(df, K) returns exactly the
\* first min(K, F) names of df, F the number of original features.
C1_FirstMinKOfF ==
  call.made =>
    /\ Len(call.result) = Min(call.top_k, Len(original_features))
    /\ \A i \in 1..Len(call.result) : i <= Len(call.df) /\ call.result[i] = call.df[i]

\* C1 (amended): recommend_features(df, K) returns exactly the first min(K, R)
\* names of df in df's own order, R the number of rows of df; that is
\* min(K, F) names whenever df has one row per original feature.
C1_FirstMinKOfRows ==
  call.made =>
    /\ Len(call.result) = Min(call.top_k, Len(call.df))
    /\ \A i \in 1..Len(call.result) : i <= Len(call.df) /\ call.result[i] = call.df[i]
    /\ Len(call.df) = Len(original_features) =>
         Len(call.result) = Min(call.top_k, Len(original_features))

\* C1 witness: K = 2 truncates a table of three rows.
C1_Witness ==
  /\ call.made
  /\ call.top_k = 2
  /\ Len(call.df) = 3
  /\ Len(call.result) = 2
  /\ Len(original_features) = 2

\* C2: the selected model is the first name of model_names() that contains
\* "LightGBM"; when no name does, the call ends at the selection stage with
\* StopIteration, an error no other stage raises, and no later stage runs.
C2_FirstLightGBMOrError ==
  LET names == predictor.model_names
  IN  /\ lightgbm_model_name # "" =>
           \E i \in DOMAIN names :
             /\ names[i] = lightgbm_model_name
             /\ str_contains(names[i], "LightGBM")
             /\ \A j \in 1..(i - 1) : ~str_contains(names[j], "LightGBM")
      /\ pc \in {"explain", "summary", "bar", "assemble", "recommend", "extend", "open", "write"} =>
           lightgbm_model_name # ""
      /\ (outcome = "running" /\ predictor.fitted
            /\ \A i \in DOMAIN names : ~str_contains(names[i], "LightGBM")) =>
           pc \in {"leaderboard", "importance", "features", "internal", "select"}
      /\ (outcome = "error" /\ error.stage = "select") =>
           /\ error.kind = "StopIteration"
           /\ \A i \in DOMAIN models_dir.model_names :
                ~str_contains(models_dir.model_names[i], "LightGBM")
           /\ "select" \notin Range(trace)
      /\ error.kind = "StopIteration" => error.stage = "select"

\* C2 witness: two names match and the first in enumeration order is selected.
C2_Witness ==
  /\ pc = "explain"
  /\ predictor.model_names = <<"LightGBMXT", "LightGBM">>
  /\ lightgbm_model_name = "LightGBMXT"

\* C3 (as stated): in the assembled document the used-features block and the
\* unused-features block are disjoint and their union is exactly the FeatureSet.
C3_UsedUnusedPartitionFeatureSet ==
  pc = "extend" =>
    LET used == Range(report_lines[11].names)
        unused == Range(report_lines[12].names)
    IN  /\ used \cap unused = {}
        /\ used \cup unused = Range(original_features)

\* C4 (as stated): after a call that failed at any stage up to assembly, no
\* report file exists at the report path.
C4_NoReportFileAfterFailedCall ==
  (pc = "idle" /\ outcome = "error"
     /\ error.stage \in {"fit", "leaderboard", "importance", "features", "internal", "select",
                         "explain", "summary", "bar", "assemble", "recommend"}) =>
    ~report_file.exists

\* C4 (amended): the report path is touched only by save_report, after the
\* document has been assembled and appended to the buffer; a call that fails
\* before save_report's write leaves the report path as it was when the call
\* started, and a call that returns leaves the whole buffer, a sequence of
\* complete documents, in the file.
C4_FailedCallLeavesReportPath ==
  /\ (outcome = "error" /\ error.stage # "write") => report_file = report_at_start
  /\ (outcome = "running" /\ pc # "write") => report_file = report_at_start
  /\ (Constructed /\ report_file # report_at_start) =>
       /\ IsPrefix(SubSeq(StageOrder, 1, 13), trace)
       /\ Len(vp_report_lines) >= Len(DocKinds)
       /\ CompleteDocument(SubSeq(vp_report_lines, Len(vp_report_lines) - Len(DocKinds) + 1,
                                  Len(vp_report_lines)))
  /\ outcome = "ok" =>
       /\ report_file = [exists |-> TRUE, content |-> vp_report_lines]
       /\ WholeDocuments(report_file.content)

\* C4 witness: a call failed at assembly while an earlier report was on disk.
C4_Witness ==
  /\ pc = "idle"
  /\ outcome = "error"
  /\ error.stage = "assemble"
  /\ report_at_start.exists
  /\ report_file = report_at_start

\* C5 (as stated): no constructed pipeline object lacks the identifier or the
\* label column, so none can start training without them.
C5_MissingColumnFailsAtLoad ==
  Constructed => (train_id.name = id_col /\ label \in Range(train_data.columns))

\* C6 (as stated): every document a returning call leaves at the report path
\* holds the blocks of sections (1) to (7), each once, in that order.
C6_BlocksInFixedOrder ==
  (pc = "idle" /\ outcome = "ok") =>
    /\ CompleteDocument(report_file.content)
    /\ \A i, j \in DOMAIN report_file.content :
         i < j => report_file.content[i].sec <= report_file.content[j].sec

\* C7 (as stated): calls on one instance that get identical artifacts from the
\* engine write the same document, each section exactly once.
C7_RepeatedRunsWriteSameDocument ==
  /\ \A i, j \in DOMAIN written : written[i] = written[j]
  /\ \A i \in DOMAIN written : Len(written[i]) = Len(DocKinds)

\* C8: the stages of a call complete in source order, each at most once, and
\* once the call has touched the report path both PNG files have been written
\* in this call from the same attribution matrix and the same input matrix.
C8_StagesInOrderImagesFirst ==
  /\ IsPrefix(trace, StageOrder)
  /\ outcome = "running" => pc = StageOrder[Len(trace) + 1]
  /\ (Constructed /\ ("open" \in Range(trace) \/ report_file # report_at_start)) =>
       /\ summary_png.exists /\ bar_png.exists
       /\ summary_png.kind = "dot" /\ bar_png.kind = "bar"
       /\ summary_png.shap = bar_png.shap
       /\ summary_png.X = bar_png.X
       /\ summary_png.X = run /\ summary_png.shap.X = run

\* C8 witness: a second call has written the report.
C8_Witness ==
  /\ pc = "idle"
  /\ outcome = "ok"
  /\ run = 2
  /\ Len(trace) = 14

\* C9: construction on a table holding the identifier, the label and F other
\* columns leaves FeatureSet equal to the table's columns in file order
\* without the identifier and the label (F names), and keeps the identifier
\* column aside.
C9_FeatureSetIsOtherColumns ==
  [][ (pc = "new" /\ pc' = "idle" /\ id_col # label
         /\ {id_col, label} \subseteq Range(train_data.columns)) =>
        LET cols == train_data.columns
            pos(f) == CHOOSE i \in DOMAIN cols : cols[i] = f
        IN  /\ Len(original_features') = Len(cols) - 2
            /\ Range(original_features') = Range(cols) \ {id_col, label}
            /\ \A i, j \in DOMAIN original_features' :
                 i < j => pos(original_features'[i]) < pos(original_features'[j])
            /\ train_id' = [name |-> id_col, nrows |-> train_data.nrows]
            /\ id_col \notin Range(train_data'.columns) ]_vars

\* C9 witness: a constructed object with two features around the label.
C9_Witness ==
  /\ pc = "idle"
  /\ train_data.columns = <<"d", "y", "a">>
  /\ original_features = <<"d", "a">>
  /\ train_id.name = "id"

\* C10: once the object is constructed, no step changes the dataset, the
\* FeatureSet, the retained identifier column, the label or the paths.
C10_FieldsFrozenAfterConstruction ==
  [][ Constructed => UNCHANGED fields ]_vars

\* C10 witness: one call failed and another returned on the same object.
C10_Witness ==
  /\ pc = "idle"
  /\ run = 2
  /\ Len(written) = 1
  /\ Len(original_features) = 2

====
